---- MODULE Spec2Model ----
(***************************************************************************)
(* Model of xui-packager (bin/index.js): configuration loading and         *)
(* merging, validation and the sequence of stages run by main, and direct  *)
(* calls of the exported functions combineConfigs, createXuiJson and       *)
(* listDirContents.                                                        *)
(*                                                                         *)
(* JavaScript strings are sequences of one-character strings, so that      *)
(* spreading a string, path.basename, String.endsWith and the id pattern   *)
(* are computed on the characters.                                         *)
(***************************************************************************)
EXTENDS Integers, Sequences, FiniteSets, TLC

(***************************************************************************)
(* JavaScript values.  t is the type tag; s holds the characters of a      *)
(* string (or the decimal digits of a number); a holds the elements of an  *)
(* array of strings; o holds the own properties of an object.              *)
(***************************************************************************)
NoProps == [k \in {} |-> <<>>]
Str(s) == [t |-> "string", s |-> s, a |-> <<>>, o |-> NoProps]
Num(d) == [t |-> "number", s |-> d, a |-> <<>>, o |-> NoProps]
Arr(a) == [t |-> "array", s |-> <<>>, a |-> a, o |-> NoProps]
Obj(o) == [t |-> "object", s |-> <<>>, a |-> <<>>, o |-> o]
True == [t |-> "boolean", s |-> <<>>, a |-> <<>>, o |-> NoProps]
Undefined == [t |-> "undefined", s |-> <<>>, a |-> <<>>, o |-> NoProps]

\* JavaScript truthiness (numbers of the model are written by their digits;
\* the only falsy one is 0)
Truthy(v) ==
  CASE v.t = "string" -> v.s /= <<>>
    [] v.t = "number" -> v.s /= <<"0">>
    [] v.t = "undefined" -> FALSE
    [] OTHER -> TRUE

\* obj[key] as a condition: the property exists and is truthy
Has(obj, key) == key \in DOMAIN obj /\ Truthy(obj[key])

\* { ...a, ...b }
Spread(a, b) ==
  [k \in (DOMAIN a) \cup (DOMAIN b) |-> IF k \in DOMAIN b THEN b[k] ELSE a[k]]

(***************************************************************************)
(* Strings used by the program                                             *)
(***************************************************************************)
S_dist == <<"d", "i", "s", "t">>
S_xui_src == <<"x", "u", "i", "/", "s", "r", "c">>
S_xui_dist == <<"x", "u", "i", "/", "d", "i", "s", "t">>
S_zip == <<".", "z", "i", "p">>
S_json == <<".", "j", "s", "o", "n">>

Letters == {"a", "b", "c", "d", "e", "f", "g", "h", "i", "j", "k", "l", "m",
            "n", "o", "p", "q", "r", "s", "t", "u", "v", "w", "x", "y", "z"}
UpperLetters == {"A", "B", "C", "D", "E", "F", "G", "H", "I", "J", "K", "L", "M",
                 "N", "O", "P", "Q", "R", "S", "T", "U", "V", "W", "X", "Y", "Z"}
Digits == {"0", "1", "2", "3", "4", "5", "6", "7", "8", "9"}

\* const defaultConfig
defaultConfig ==
  [k \in {"vueSrcDir", "xuiSrcDir", "outputDir", "extraMetadata"} |->
     CASE k = "vueSrcDir" -> Str(S_dist)
       [] k = "xuiSrcDir" -> Str(S_xui_src)
       [] k = "outputDir" -> Str(S_xui_dist)
       [] OTHER -> Obj([m \in {"enabled"} |-> True])]

(***************************************************************************)
(* path.basename (POSIX): trailing slashes are dropped, then everything up *)
(* to and including the last remaining slash.                              *)
(***************************************************************************)
RECURSIVE StripTrailingSlashes(_)
StripTrailingSlashes(p) ==
  IF p /= <<>> /\ p[Len(p)] = "/"
  THEN StripTrailingSlashes(SubSeq(p, 1, Len(p) - 1))
  ELSE p

basename(p) ==
  LET q == StripTrailingSlashes(p)
      slashes == {i \in 1..Len(q) : q[i] = "/"}
      last == IF slashes = {} THEN 0
              ELSE CHOOSE i \in slashes : \A j \in slashes : j <= i
  IN SubSeq(q, last + 1, Len(q))

(***************************************************************************)
(* parseConfig                                                             *)
(***************************************************************************)
BasicFields == {"vue_src", "xui_src", "output", "name", "exclude", "id"}

\* key.startsWith('met_') and key.replace('met_', ''), over the keys of the
\* model
MetKeys == {"met_version", "met_enabled", "met_last_updated", "met_name", "met_icon",
            "met_package_contents"}
StripMet(key) ==
  CASE key = "met_version" -> "version"
    [] key = "met_enabled" -> "enabled"
    [] key = "met_last_updated" -> "last_updated"
    [] key = "met_name" -> "name"
    [] key = "met_icon" -> "icon"
    [] key = "met_package_contents" -> "package_contents"

\* path.basename throws a TypeError when its argument is not a string
parseConfigThrows(args) == Has(args, "icon") /\ args["icon"].t /= "string"

parseConfig(args) ==
  LET basic == [k \in {f \in BasicFields : Has(args, f)} |-> args[k]]
      icon == IF Has(args, "icon")
              THEN [k \in {"iconPath", "iconFilename"} |->
                      IF k = "iconPath" THEN args["icon"]
                      ELSE Str(basename(args["icon"].s))]
              ELSE NoProps
      metaArgs == (DOMAIN args) \cap MetKeys
      extraMetadata ==
        [m \in {StripMet(k) : k \in metaArgs} |->
           args[CHOOSE k \in metaArgs : StripMet(k) = m]]
      meta == IF metaArgs /= {}
              THEN [k \in {"extraMetadata"} |-> Obj(extraMetadata)]
              ELSE NoProps
  IN Spread(Spread(basic, icon), meta)

(***************************************************************************)
(* combineConfigs                                                          *)
(***************************************************************************)
\* [...x]: the elements of an array, the characters of a string
Iterable(v) == v.t \in {"string", "array"}
Elements(v) ==
  IF v.t = "string" THEN [i \in 1..Len(v.s) |-> <<v.s[i]>>] ELSE v.a

\* config.exclude || []
ExcludeOrEmpty(config) ==
  IF Has(config, "exclude") THEN config["exclude"] ELSE Arr(<<>>)

\* ...config.extraMetadata (spreading undefined adds nothing)
MetadataOf(config) ==
  IF "extraMetadata" \in DOMAIN config THEN config["extraMetadata"].o ELSE NoProps

\* (as mergeMetadata, but the earlier source wins)
mergeMetadata_FirstWins(combined, config) == Spread(MetadataOf(config), MetadataOf(combined))

\* { ...combined.extraMetadata, ...config.extraMetadata }
mergeMetadata(combined, config) == Spread(MetadataOf(combined), MetadataOf(config))

\* one step of the reduce
combineStep(combined, config) ==
  Spread(Spread(combined, config),
         [k \in {"exclude", "extraMetadata"} |->
            IF k = "exclude"
            THEN Arr(Elements(ExcludeOrEmpty(combined)) \o Elements(ExcludeOrEmpty(config)))
            ELSE Obj(mergeMetadata(combined, config))])

\* spreading a value that is not iterable throws a TypeError
combineConfigsThrows(configs) ==
  \E i \in 1..Len(configs) : ~Iterable(ExcludeOrEmpty(configs[i]))

RECURSIVE combineFrom(_, _, _)
combineFrom(combined, configs, i) ==
  IF i > Len(configs) THEN combined
  ELSE combineFrom(combineStep(combined, configs[i]), configs, i + 1)

combineConfigs(configs) == combineFrom(NoProps, configs, 1)

(***************************************************************************)
(* checkConfigRequirements                                                 *)
(***************************************************************************)
\* /^[A-Z]{3}-[0-9a-z]{8}$/i
MatchesIdPattern(s) ==
  /\ Len(s) = 12
  /\ \A i \in 1..3 : s[i] \in Letters \cup UpperLetters
  /\ s[4] = "-"
  /\ \A i \in 5..12 : s[i] \in Letters \cup UpperLetters \cup Digits

NoError == [kind |-> "none", text |-> "", arg |-> <<>>]
MkError(kind, text, arg) == [kind |-> kind, text |-> text, arg |-> arg]

\* the error thrown, or NoError
checkConfigRequirements(config) ==
  IF ~Has(config, "id") THEN MkError("Error", "id is required", <<>>)
  ELSE IF ~Has(config, "name") THEN MkError("Error", "name is required", <<>>)
  ELSE IF config["id"].t /= "string"
       THEN MkError("TypeError", "config.id.match is not a function", <<>>)
  ELSE IF ~MatchesIdPattern(config["id"].s)
       THEN MkError("Error", "id must be in the format XXX-xxxxxxxx. Received", config["id"].s)
  ELSE NoError

(***************************************************************************)
(* listDirContents                                                         *)
(*                                                                         *)
(* A directory is the sequence of its entries in the order readdirSync     *)
(* returns them.  An entry (fs.Dirent) has a name and a kind, "dir" when   *)
(* isDirectory() is true, and a directory entry holds the directory it     *)
(* names.                                                                  *)
(***************************************************************************)
Dirent(name, kind, entries) == [name |-> name, kind |-> kind, entries |-> entries]

\* fileList after fileList.concat(subDirContents): concat returns a new array,
\* which is dropped; fileList itself is the array the recursive call pushed to
AfterSubDir_Reassigned(fileList) == fileList \o fileList
AfterSubDir(fileList) == fileList

RECURSIVE listDirContents(_, _, _, _)
RECURSIVE forEachDirent(_, _, _, _, _)
\* dirContents.forEach from its i-th element on; yields fileList as it is
\* after the loop
forEachDirent(dirContents, dir, fileList, recurse, i) ==
  IF i > Len(dirContents) THEN fileList
  ELSE LET f == dirContents[i]
           path == dir \o <<"/">> \o f.name
       IN forEachDirent(dirContents, dir,
                        IF f.kind = "dir" /\ recurse
                        THEN AfterSubDir(listDirContents(f.entries, path, fileList, TRUE))
                        ELSE Append(fileList, path),
                        recurse, i + 1)

\* dirContents is what readdirSync(dir) returns
listDirContents(dirContents, dir, fileList, recurse) ==
  forEachDirent(dirContents, dir, fileList, recurse, 1)

(***************************************************************************)
(* createXuiJson                                                           *)
(***************************************************************************)
\* String.prototype.indexOf, counting from 1; 0 when there is no occurrence
IndexOf(str, pat) ==
  LET hits == {i \in 1..(Len(str) - Len(pat) + 1) : SubSeq(str, i, i + Len(pat) - 1) = pat}
  IN IF hits = {} THEN 0 ELSE CHOOSE i \in hits : \A j \in hits : i <= j

\* String.prototype.replace with a string as pattern: the first occurrence
Replace(str, pat, by) ==
  LET i == IndexOf(str, pat)
  IN IF i = 0 THEN str
     ELSE SubSeq(str, 1, i - 1) \o by \o SubSeq(str, i + Len(pat), Len(str))

\* isoString.split('T')[0]
DatePart(isoString) ==
  IF IndexOf(isoString, <<"T">>) = 0 THEN isoString
  ELSE SubSeq(isoString, 1, IndexOf(isoString, <<"T">>) - 1)

\* a destructured parameter: undefined when the object has no such property
Get(obj, key) == IF key \in DOMAIN obj THEN obj[key] ELSE Undefined

\* (as withMetadata, but the fixed fields win)
withMetadata_FixedWins(fixed, c) == Spread(MetadataOf(c), fixed)

\* { name, id, last_updated, package_contents, ...extraMetadata }
withMetadata(fixed, c) == Spread(fixed, MetadataOf(c))

\* the object createXuiJson builds; dirContents is the content of xuiSrcDir
\* and isoString is what new Date().toISOString() returns
xuiMetadata(c, dirContents, isoString) ==
  LET xuiSrcDir == Get(c, "xuiSrcDir").s
      listed == listDirContents(dirContents, xuiSrcDir, <<>>, TRUE)
      filePaths == [i \in 1..Len(listed) |->
                      Replace(listed[i], xuiSrcDir \o <<"/">>, <<>>)]
      fixed == [k \in {"name", "id", "last_updated", "package_contents"} |->
                  CASE k = "name" -> Get(c, "name")
                    [] k = "id" -> Get(c, "id")
                    [] k = "last_updated" -> Str(DatePart(isoString))
                    [] OTHER -> Arr(filePaths)]
      spread == withMetadata(fixed, c)
  IN IF Has(c, "iconFilename")
     THEN Spread(spread, [k \in {"icon"} |-> c["iconFilename"]])
     ELSE spread

\* JSON.stringify of an object, as the properties a reader of the text finds:
\* a property whose value is undefined is left out
Stringified(obj) == [k \in {k \in DOMAIN obj : obj[k].t /= "undefined"} |-> obj[k]]

(***************************************************************************)
(* Inputs of one invocation: the package descriptor read by load.sync()    *)
(* and the object minimist makes of process.argv.  minimist yields a       *)
(* string for --flag value, true for a flag without a value, a number for  *)
(* a numeric value and an array for a repeated flag.                       *)
(***************************************************************************)
\* fields of xuiConfig in package.json, at most
MaxPkgFields == 1
\* flags on the command line, at most
MaxFlags == 2
\* repetitions of --exclude / length of an exclude array, at most
MaxExclude == 2

S_app == <<"a", "p", "p">>
S_pkg == <<"p", "k", "g">>
IdLower == <<"X", "U", "I", "-", "a", "b", "c", "d", "1", "2", "3", "4">>
IdUpper == <<"a", "p", "l", "-", "A", "B", "C", "D", "E", "F", "G", "9">>
IdInvalid == <<"i", "n", "v", "a", "l", "i", "d", "-", "i", "d">>
IdLong == <<"X", "U", "I", "-", "a", "b", "c", "d", "1", "2", "3", "4", "5">>
Patterns == {<<"x">>, <<"i", ".", "h">>}

ArgKeys == BasicFields \cup {"icon", "met_version", "met_enabled", "met_last_updated", "label"}

ArgvValues(key) ==
  CASE key = "name" -> {Str(S_app), Str(<<>>)}
    [] key = "id" -> {Str(IdLower), Str(IdUpper), Str(IdInvalid), Str(IdLong),
                      Num(<<"1", "2", "3">>), True}
    [] key = "vue_src" -> {Str(<<"b">>)}
    [] key = "xui_src" -> {Str(<<"s">>)}
    [] key = "output" -> {Str(<<"o">>)}
    [] key = "exclude" -> {Str(p) : p \in Patterns}
                            \cup {Arr(a) : a \in [1..MaxExclude -> Patterns]}
                            \cup {True, Num(<<"5">>)}
    [] key = "icon" -> {Str(<<"i", "/", "l", ".", "p">>),
                        Str(S_app \o S_json), True}
    [] key = "met_version" -> {Num(<<"2">>)}
    [] key = "met_enabled" -> {Str(<<"n", "o">>)}
    [] key = "met_last_updated" -> {Str(<<"2", "0", "2", "0">>)}
    [] OTHER -> {Str(<<"L">>)}

PkgValues(key) ==
  CASE key = "name" -> {Str(S_pkg)}
    [] key = "id" -> {Str(IdUpper), Str(IdInvalid)}
    [] key = "vue_src" -> {Str(<<"v">>)}
    [] key = "xui_src" -> {Str(<<"w">>)}
    [] key = "output" -> {Str(<<"u">>)}
    [] key = "exclude" -> {Arr(a) : a \in [1..MaxExclude -> Patterns]}
                            \cup {Arr(<<>>), Str(<<"i", ".", "h">>)}
    [] key = "icon" -> {Str(<<"c", ".", "p">>)}
    [] key = "met_version" -> {Str(<<"1">>)}
    [] key = "met_enabled" -> {Str(<<"n", "o">>)}
    [] key = "met_last_updated" -> {Str(<<"1", "9", "9", "9">>)}
    [] OTHER -> {Str(<<"P">>)}

\* the objects with at most n of the keys, key k holding one of Values(k)
ArgObjects(keys, Values(_), n) ==
  UNION {{f \in [K -> UNION {Values(k) : k \in K}] : \A k \in K : f[k] \in Values(k)} :
           K \in {K \in SUBSET keys : Cardinality(K) <= n}}

Versions == {Undefined, Str(<<"1", ".", "1">>)}

\* inputs for the resolution of the configuration
PackageJsons ==
  [version : Versions, xuiConfig : ArgObjects(ArgKeys, PkgValues, MaxPkgFields)]
Argvs == ArgObjects(ArgKeys, ArgvValues, MaxFlags)

\* inputs for whole runs of main: every choice of name, id and icon
MainKeys == {"name", "id", "icon"}
MainPackageJsons ==
  [version : Versions,
   xuiConfig : ArgObjects(MainKeys \ {"id"}, PkgValues, Cardinality(MainKeys))]
MainArgvs == ArgObjects(MainKeys, ArgvValues, Cardinality(MainKeys))

\* levels of entries under xuiSrcDir, at most
MaxDepth == 2
\* arguments of a direct call of combineConfigs, at most
MaxConfigs == 3

\* names of directory entries, in the order readdirSync lists them
EntryNames == <<<<"f">>, <<"s">>>>

\* the directories whose entries are nested at most depth levels deep: each
\* name is absent, a non-directory, or a directory
RECURSIVE Directories(_)
Directories(depth) ==
  IF depth = 0 THEN {<<>>}
  ELSE LET kinds == {Dirent(<<>>, k, <<>>) : k \in {"absent", "file"}}
                      \cup {Dirent(<<>>, "dir", d) : d \in Directories(depth - 1)}
           named(choice) ==
             [i \in 1..Len(EntryNames) |->
                Dirent(EntryNames[i], choice[i].kind, choice[i].entries)]
           present(e) == e.kind /= "absent"
       IN {SelectSeq(named(choice), present) : choice \in [1..Len(EntryNames) -> kinds]}

\* xuiSrcDir in the runs of main: static/f
MainTree == <<Dirent(<<"s">>, "dir", <<Dirent(<<"f">>, "file", <<>>)>>)>>

\* what new Date().toISOString() may return
Clock ==
  {<<"2", "0", "2", "6", "-", "1", "1", "-", "0", "5", "T",
     "0", "9", ":", "3", "0", ":", "0", "0", ".", "0", "0", "0", "Z">>,
   <<"1", "9", "9", "9", "-", "1", "2", "-", "3", "1", "T",
     "2", "3", ":", "5", "9", ":", "5", "9", ".", "9", "9", "9", "Z">>}

\* inputs for createXuiJson: the configurations main resolves from a valid
\* name and id and every choice of icon and of metadata that meets a fixed
\* field of the manifest
ManifestKeys == {"icon", "met_icon", "met_name", "met_last_updated", "met_package_contents"}
ManifestValues(key) == {v \in ArgvValues(key) : v.t = "string"}
ManifestArgvs ==
  {Spread([k \in {"name", "id"} |-> IF k = "name" THEN Str(S_app) ELSE Str(IdLower)], extra) :
     extra \in ArgObjects(ManifestKeys, ManifestValues, Cardinality(ManifestKeys))}
ManifestPackageJsons ==
  [version : Versions, xuiConfig : ArgObjects({"icon", "met_last_updated"}, PkgValues, 2)]

\* inputs for combineConfigs: what parseConfig can return for metadata and
\* exclude, and the compiled-in default
MetadataObjects ==
  UNION {[K -> {True, Undefined, Str(<<"1">>)}] : K \in SUBSET {"enabled", "version"}}
PartialConfigs ==
  {NoProps, defaultConfig, [k \in {"name"} |-> Str(S_app)],
   [k \in {"exclude"} |-> Arr(<<<<"x">>>>)], [k \in {"exclude"} |-> True]}
    \cup {[k \in {"extraMetadata"} |-> Obj(m)] : m \in MetadataObjects \ {NoProps}}
ConfigSeqs == UNION {[1..n -> PartialConfigs] : n \in 0..MaxConfigs}


(***************************************************************************)
(* State of one invocation of main                                         *)
(***************************************************************************)
VARIABLES
  packageJson,    \* what load.sync() returns
  argv,           \* what minimist returns for process.argv.slice(2)
  pc,             \* position of main
  configPackage,  \* main: const configPackage
  configArgs,     \* main: const configArgs
  config,         \* main: const config
  log,            \* console output, in order
  started,        \* the stages begun, in order
  failed,         \* the stages whose failure main caught
  fsOps,          \* mutations of the file system made so far, in order
  outDirExists,   \* config.outputDir exists
  outFiles,       \* names of the entries of config.outputDir
  rsync,          \* the rsync child process: "none", "running", "ok", "error"
  zip1Out,        \* write stream of {name}.zip: "none", "open", "closed"
  zip2Out,        \* write stream of the final archive
  seen,           \* what each stage found when it read the previous one's output
  outerEntries,   \* entry names given to the archive of stage 2, in order
  zipLocation,    \* path createContentLibraryZip resolved to, or <<>>
  exited,         \* the process has ended
  exitCode,       \* its completion status
  unhandled,      \* a promise was rejected that has no rejection handler
  tree,           \* content of config.xuiSrcDir
  manifest,       \* properties of the JSON text in {name}.json
  sources,        \* a direct call of combineConfigs: its arguments
  listing         \* a direct call of listDirContents: what it returned

vars == <<packageJson, argv, pc, configPackage, configArgs, config, log, started,
          failed, fsOps, outDirExists, outFiles, rsync, zip1Out, zip2Out, seen,
          outerEntries, zipLocation, exited, exitCode, unhandled, tree, manifest,
          sources, listing>>

inputVars == <<packageJson, argv, tree, sources, listing>>
fsVars == <<fsOps, outDirExists, outFiles>>
zipVars == <<zip1Out, zip2Out, outerEntries, zipLocation>>

Msg(level, text, arg) == [level |-> level, text |-> text, arg |-> arg]
Path(dir, name) == dir \o <<"/">> \o name
\* String.prototype.endsWith
EndsWith(str, suffix) ==
  Len(str) >= Len(suffix) /\ SubSeq(str, Len(str) - Len(suffix) + 1, Len(str)) = suffix

\* the fields of config the stages destructure
VueSrcDirOf(c) == c["vueSrcDir"]
XuiSrcDirOf(c) == c["xuiSrcDir"]
OutputDirOf(c) == c["outputDir"]
NameOf(c) == c["name"]
IdOf(c) == c["id"]

\* `${value}` of a string, number or boolean of the model
Template(v) == IF v.t = "boolean" THEN <<"t", "r", "u", "e">> ELSE v.s

StaleFiles == {<<"o">> \o S_zip, <<"n", ".", "t">>}

InitWith(packageJsons, argvs, dirStates) ==
  /\ packageJson \in packageJsons
  /\ argv \in argvs
  /\ pc = "start"
  /\ configPackage = NoProps
  /\ configArgs = NoProps
  /\ config = NoProps
  /\ log = <<>>
  /\ started = <<>>
  /\ failed = {}
  /\ fsOps = <<>>
  /\ outDirExists \in dirStates
  /\ outFiles = IF outDirExists THEN StaleFiles ELSE {}
  /\ rsync = "none"
  /\ zip1Out = "none"
  /\ zip2Out = "none"
  /\ seen = NoProps
  /\ outerEntries = <<>>
  /\ zipLocation = <<>>
  /\ exited = FALSE
  /\ exitCode = 0
  /\ unhandled = FALSE
  /\ tree = MainTree
  /\ manifest = NoProps
  /\ sources = <<>>
  /\ listing = <<>>

\* args = packageJson.xuiConfig || {}; if (!args.met_version) args.met_version = ...
PackageArgs(pj) ==
  IF Has(pj.xuiConfig, "met_version") THEN pj.xuiConfig
  ELSE Spread(pj.xuiConfig, [k \in {"met_version"} |-> pj.version])

\* a direct call of an exported function, as the test suite makes them
InitCall(resolved, directories, arguments) ==
  /\ packageJson = [version |-> Undefined, xuiConfig |-> NoProps]
  /\ argv = NoProps
  /\ pc = "call"
  /\ configPackage = NoProps
  /\ configArgs = NoProps
  /\ config \in resolved
  /\ log = <<>>
  /\ started = <<>>
  /\ failed = {}
  /\ fsOps = <<>>
  /\ outDirExists = TRUE
  /\ outFiles = {}
  /\ rsync = "none"
  /\ zip1Out = "none"
  /\ zip2Out = "none"
  /\ seen = NoProps
  /\ outerEntries = <<>>
  /\ zipLocation = <<>>
  /\ exited = FALSE
  /\ exitCode = 0
  /\ unhandled = FALSE
  /\ tree \in directories
  /\ manifest = NoProps
  /\ sources \in arguments
  /\ listing = <<>>

Resolve(pj, args) ==
  combineConfigs(<<defaultConfig, parseConfig(PackageArgs(pj)), parseConfig(args)>>)
ManifestConfigs == {Resolve(pj, args) : pj \in ManifestPackageJsons, args \in ManifestArgvs}
PlainConfig ==
  Resolve([version |-> Undefined, xuiConfig |-> NoProps],
          [k \in {"name", "id"} |-> IF k = "name" THEN Str(S_app) ELSE Str(IdLower)])

\* calls of createXuiJson and listDirContents: every configuration over one
\* directory, and one configuration over every directory
InitManifest ==
  \/ InitCall(ManifestConfigs, {MainTree}, {<<>>})
  \/ InitCall({PlainConfig}, Directories(MaxDepth), {<<>>})

\* calls of combineConfigs
InitCombine == InitCall({NoProps}, {MainTree}, ConfigSeqs)

\* a run of main
Init == InitWith(MainPackageJsons, MainArgvs, BOOLEAN)
\* the resolution and validation of a configuration
InitConfig == InitWith(PackageJsons, Argvs, {FALSE})

(***************************************************************************)
(* main: loading and merging the configuration (not inside any try)        *)
(***************************************************************************)
\* an exception thrown in main outside its try blocks rejects main's promise,
\* which the caller of main() dropped
Throw(next, isThrown) == IF isThrown THEN "rejected" ELSE next

ParseConfigFromPackageJson ==
  /\ pc = "start"
  /\ pc' = Throw("parsedPackage", parseConfigThrows(PackageArgs(packageJson)))
  /\ configPackage' = IF parseConfigThrows(PackageArgs(packageJson)) THEN configPackage
                      ELSE parseConfig(PackageArgs(packageJson))
  /\ unhandled' = parseConfigThrows(PackageArgs(packageJson))
  /\ UNCHANGED <<inputVars, manifest, configArgs, config, log, started, failed, fsVars, rsync,
                 zipVars, seen, exited, exitCode>>

ParseConfigFromArgs ==
  /\ pc = "parsedPackage"
  /\ pc' = Throw("parsedArgs", parseConfigThrows(argv))
  /\ configArgs' = IF parseConfigThrows(argv) THEN configArgs ELSE parseConfig(argv)
  /\ unhandled' = parseConfigThrows(argv)
  /\ UNCHANGED <<inputVars, manifest, configPackage, config, log, started, failed, fsVars, rsync,
                 zipVars, seen, exited, exitCode>>

CombineConfigs ==
  /\ pc = "parsedArgs"
  /\ LET configs == <<defaultConfig, configPackage, configArgs>>
     IN IF combineConfigsThrows(configs)
        THEN /\ pc' = "rejected"
             /\ unhandled' = TRUE
             /\ UNCHANGED <<config, log>>
        ELSE /\ pc' = "combined"
             /\ config' = combineConfigs(configs)
             /\ log' = Append(log, Msg("log", "Creating XUI using the following config", <<>>))
             /\ UNCHANGED unhandled
  /\ UNCHANGED <<inputVars, manifest, configPackage, configArgs, started, failed, fsVars, rsync,
                 zipVars, seen, exited, exitCode>>

(***************************************************************************)
(* main: the stages                                                        *)
(***************************************************************************)
\* where main goes after the catch block of a stage that must succeed: the
\* block ends with return, so the stage that would come next is not reached
AfterFatal_NoReturn(next) == next
AfterFatal(next) == "returned"

\* where main goes after the catch block of cleanupZips, which only warns
AfterCleanupFailure_Return == "returned"
AfterCleanupFailure == "cleaned"

ValidateConfig ==
  /\ pc = "combined"
  /\ started' = Append(started, "ValidateConfig")
  /\ LET e == checkConfigRequirements(config)
     IN IF e = NoError
        THEN /\ pc' = "validated"
             /\ UNCHANGED <<log, failed>>
        ELSE /\ pc' = AfterFatal("validated")
             /\ log' = Append(log, Msg("error", e.text, e.arg))
             /\ failed' = failed \cup {"ValidateConfig"}
  /\ UNCHANGED <<inputVars, manifest, configPackage, configArgs, config, fsVars, rsync, zipVars,
                 seen, exited, exitCode, unhandled>>

\* createOutputDir: fs.mkdir(outputDir, { recursive: true })
PrepareOutputDir ==
  /\ pc = "validated"
  /\ started' = Append(started, "PrepareOutputDir")
  /\ \E err \in BOOLEAN :
       IF err
       THEN /\ pc' = AfterFatal("outputDirReady")
            /\ log' = Append(log, Msg("error", "Error creating output directory", <<>>))
            /\ failed' = failed \cup {"PrepareOutputDir"}
            /\ UNCHANGED fsVars
       ELSE /\ pc' = "outputDirReady"
            /\ outDirExists' = TRUE
            /\ fsOps' = Append(fsOps, "mkdir")
            /\ UNCHANGED <<log, failed, outFiles>>
  /\ UNCHANGED <<inputVars, manifest, configPackage, configArgs, config, rsync, zipVars, seen,
                 exited, exitCode, unhandled>>

\* the entries cleanupZips unlinks: those whose path ends with '.zip'
ZipsIn(dir, files) == {f \in files : EndsWith(Path(dir, f), S_zip)}

\* cleanupZips.  readdirSync may throw; unlinkSync may throw at any of the
\* zips, after those listed before it (in the directory's own order) are gone.
CleanupStaleArchives ==
  /\ pc = "outputDirReady"
  /\ started' = Append(started, "CleanupStaleArchives")
  /\ LET zips == ZipsIn(OutputDirOf(config).s, outFiles)
         warn == Msg("warn", "Unable to cleanup previous zip archives. Continuing.", <<>>)
     IN \/ /\ pc' = "cleaned"
           /\ outFiles' = outFiles \ zips
           /\ fsOps' = IF zips = {} THEN fsOps ELSE Append(fsOps, "unlink")
           /\ UNCHANGED <<log, failed>>
        \/ /\ pc' = AfterCleanupFailure
           /\ log' = Append(log, warn)
           /\ failed' = failed \cup {"CleanupStaleArchives"}
           /\ UNCHANGED <<outFiles, fsOps>>
        \/ /\ pc' = AfterCleanupFailure
           /\ \E gone \in SUBSET zips :
                /\ gone /= zips
                /\ outFiles' = outFiles \ gone
                /\ fsOps' = IF gone = {} THEN fsOps ELSE Append(fsOps, "unlink")
           /\ log' = Append(log, warn)
           /\ failed' = failed \cup {"CleanupStaleArchives"}
  /\ UNCHANGED <<inputVars, manifest, configPackage, configArgs, config, outDirExists, rsync,
                 zipVars, seen, exited, exitCode, unhandled>>


\* copyFiles.  The executor builds the rsync command, execute() spawns the
\* child process and returns it, and resolve(rsync) settles the promise at
\* once; an exception thrown while building or spawning rejects it instead.
\* The callback given to execute() runs when the child ends (RsyncExit).
MirrorContent ==
  /\ pc = "cleaned"
  /\ started' = Append(started, "MirrorContent")
  /\ \E thrown \in BOOLEAN :
       IF thrown
       THEN /\ pc' = AfterFatal("copied")
            /\ log' = Append(log, Msg("error", "Error copying files. Exiting.", <<>>))
            /\ failed' = failed \cup {"MirrorContent"}
            /\ UNCHANGED <<rsync, fsOps>>
       ELSE /\ pc' = "copied"
            /\ rsync' = "running"
            /\ fsOps' = Append(fsOps, "rsync")
            /\ log' = Append(log, Msg("log", "Successfully copied files from",
                                      VueSrcDirOf(config).s))
            /\ UNCHANGED failed
  /\ UNCHANGED <<inputVars, manifest, configPackage, configArgs, config, outDirExists, outFiles,
                 zipVars, seen, exited, exitCode, unhandled>>

\* what the promise of copyFiles does with the callback of execute(): the
\* promise is settled already, so reject(error) and resolve() change nothing
RsyncCallback(position, error) == position

\* the rsync child ends, with or without an error, and execute()'s callback runs
RsyncExit ==
  /\ rsync = "running"
  /\ ~exited
  /\ \E error \in BOOLEAN :
       /\ rsync' = IF error THEN "error" ELSE "ok"
       /\ pc' = RsyncCallback(pc, error)
  /\ UNCHANGED <<inputVars, manifest, configPackage, configArgs, config, log, started, failed,
                 fsVars, zipVars, seen, exited, exitCode, unhandled>>

See(key, value) == Spread(seen, [k \in {key} |-> value])

\* createXuiJson when nothing throws: xuiSrcDir is listed as it is now and
\* the manifest written
WriteManifest(isoString) ==
  /\ manifest' = Stringified(xuiMetadata(config, tree, isoString))
  /\ seen' = Spread(See("mirrorAtListing", rsync), [k \in {"now"} |-> isoString])
  /\ outFiles' = outFiles \cup {Template(NameOf(config)) \o S_json}
  /\ fsOps' = Append(fsOps, "writeManifest")

\* main's call of createXuiJson: list xuiSrcDir (readdirSync may throw), write
\* the manifest (writeFileSync may throw)
BuildManifest ==
  /\ pc = "copied"
  /\ started' = Append(started, "BuildManifest")
  /\ \E err \in BOOLEAN :
       IF err
       THEN /\ pc' = AfterFatal("manifestWritten")
            /\ log' = Append(log, Msg("error", "Error creating json metdata file. Exiting.", <<>>))
            /\ failed' = failed \cup {"BuildManifest"}
            /\ UNCHANGED <<outFiles, fsOps, seen, manifest>>
       ELSE /\ pc' = "manifestWritten"
            /\ \E isoString \in Clock : WriteManifest(isoString)
            /\ log' = Append(log, Msg("log", "Successfully created XUI metadata JSON file.", <<>>))
            /\ UNCHANGED failed
  /\ UNCHANGED <<inputVars, configPackage, configArgs, config, outDirExists, rsync,
                 zipVars, exited, exitCode, unhandled>>

\* createContentLibraryZip calls zipXuiPackageFiles: the write stream of
\* {name}.zip is created, the directory queued and finalize() called
AssembleArchiveStage1 ==
  /\ pc = "manifestWritten"
  /\ started' = Append(started, "AssembleArchive")
  /\ pc' = "zip1"
  /\ seen' = See("manifestAtZip1", IF Template(NameOf(config)) \o S_json \in outFiles
                                  THEN "written" ELSE "missing")
  /\ zip1Out' = "open"
  /\ outFiles' = outFiles \cup {Template(NameOf(config)) \o S_zip}
  /\ fsOps' = Append(fsOps, "createZip1")
  /\ UNCHANGED <<inputVars, manifest, configPackage, configArgs, config, log, failed, outDirExists,
                 rsync, zip2Out, outerEntries, zipLocation, exited, exitCode,
                 unhandled>>

\* main's catch of a rejected createContentLibraryZip
ArchiveFailed(printed) ==
  /\ pc' = AfterFatal("returned")
  /\ log' = Append(printed, Msg("error", "Error creating zip archive.", <<>>))
  /\ failed' = failed \cup {"AssembleArchive"}

\* what the handlers of 'warning' and 'error' do to the promise of their
\* stage after console.log(err): reject(err)
OnArchiveEvent_LogOnly == "pending"
OnArchiveEvent == "rejected"

\* console.log(err) of the handlers
EventPrinted == Append(log, Msg("log", "archiver event", <<>>))

\* the archive of stage 1 emits 'warning' or 'error' before finalize() resolves:
\* the handler rejects the promise of the stage.  When the event is an error of
\* the zip engine, the promise of finalize() is rejected too, and with it the
\* one made by .then(), which has no rejection handler.
Stage1ArchiveEvent ==
  /\ pc = "zip1"
  /\ "archiveEvent" \notin DOMAIN seen
  /\ seen' = See("archiveEvent", "stage1")
  /\ IF OnArchiveEvent = "rejected"
     THEN ArchiveFailed(EventPrinted) /\ unhandled' \in BOOLEAN
     ELSE log' = EventPrinted /\ UNCHANGED <<pc, failed, unhandled>>
  /\ UNCHANGED <<inputVars, manifest, configPackage, configArgs, config, started, fsVars, rsync,
                 zipVars, exited, exitCode>>

\* the write stream of {name}.zip has written everything and is closed; no
\* code waits for it
Stage1OutputClose ==
  /\ zip1Out = "open"
  /\ ~exited
  /\ zip1Out' = "closed"
  /\ UNCHANGED <<inputVars, manifest, pc, configPackage, configArgs, config, log, started, failed,
                 fsVars, rsync, zip2Out, outerEntries, zipLocation, seen, exited,
                 exitCode, unhandled>>

\* sha256File(zipFile).slice(0, 7): the digest is that of the bytes in the
\* file when it is read
ShortDigest(stream) ==
  IF stream = "closed" THEN <<"c", "0", "f", "f", "e", "e", "1">>
  ELSE <<"b", "a", "d", "c", "0", "d", "e">>

\* (as OuterEntryNames, but the icon is stored under the path it was given by)
OuterEntryNames_IconPath(c) ==
  <<Template(NameOf(c)) \o S_zip, Template(NameOf(c)) \o S_json>>
    \o (IF Has(c, "iconPath") THEN <<Template(c["iconPath"])>> ELSE <<>>)

\* (as FinalName, but without the digest)
FinalName_NoDigest(c, stream) == Template(NameOf(c)) \o S_zip

\* what zipContentLibraryPackageFiles passes as entry names
OuterEntryNames(c) ==
  <<Template(NameOf(c)) \o S_zip, Template(NameOf(c)) \o S_json>>
    \o (IF Has(c, "iconPath") THEN <<Template(c["iconFilename"])>> ELSE <<>>)

FinalName(c, stream) == Template(NameOf(c)) \o <<"-">> \o ShortDigest(stream) \o S_zip

\* finalize() of stage 1 resolves; createContentLibraryZip goes on to
\* zipContentLibraryPackageFiles, which hashes {name}.zip, creates the write
\* stream of the final archive, queues the entries and calls finalize()
AssembleArchiveStage2 ==
  /\ pc = "zip1"
  /\ pc' = "zip2"
  /\ seen' = See("zip1AtDigest", zip1Out)
  /\ zip2Out' = "open"
  /\ outFiles' = outFiles \cup {FinalName(config, zip1Out)}
  /\ fsOps' = Append(fsOps, "createZip2")
  /\ outerEntries' = OuterEntryNames(config)
  /\ UNCHANGED <<inputVars, manifest, configPackage, configArgs, config, log, started, failed,
                 outDirExists, rsync, zip1Out, zipLocation, exited, exitCode, unhandled>>

\* the archive of stage 2 emits 'warning' or 'error' before finalize() resolves:
\* the handler rejects the promise of the stage.  When the event is an error of
\* the zip engine, the promise of finalize() is rejected too, and with it the
\* one made by .then(), which has no rejection handler.
Stage2ArchiveEvent ==
  /\ pc = "zip2"
  /\ "archiveEvent" \notin DOMAIN seen
  /\ seen' = See("archiveEvent", "stage2")
  /\ IF OnArchiveEvent = "rejected"
     THEN ArchiveFailed(EventPrinted) /\ unhandled' \in BOOLEAN
     ELSE log' = EventPrinted /\ UNCHANGED <<pc, failed, unhandled>>
  /\ UNCHANGED <<inputVars, manifest, configPackage, configArgs, config, started, fsVars, rsync,
                 zipVars, exited, exitCode>>

Stage2OutputClose ==
  /\ zip2Out = "open"
  /\ ~exited
  /\ zip2Out' = "closed"
  /\ UNCHANGED <<inputVars, manifest, pc, configPackage, configArgs, config, log, started, failed,
                 fsVars, rsync, zip1Out, outerEntries, zipLocation, seen, exited,
                 exitCode, unhandled>>

\* finalize() of stage 2 resolves: {name}.zip, then {name}.json are unlinked
\* (either unlinkSync may throw) and main prints the path
AssembleArchiveDone ==
  /\ pc = "zip2"
  /\ LET zipFile == Template(NameOf(config)) \o S_zip
         metaFile == Template(NameOf(config)) \o S_json
     IN \/ /\ ArchiveFailed(log)
           /\ UNCHANGED <<outFiles, fsOps, zipLocation>>
        \/ /\ ArchiveFailed(log)
           /\ outFiles' = outFiles \ {zipFile}
           /\ fsOps' = Append(fsOps, "unlinkIntermediate")
           /\ UNCHANGED zipLocation
        \/ /\ pc' = "returned"
           /\ outFiles' = outFiles \ {zipFile, metaFile}
           /\ fsOps' = Append(fsOps, "unlinkIntermediate")
           /\ zipLocation' = Path(OutputDirOf(config).s,
                                  FinalName(config, seen["zip1AtDigest"]))
           /\ log' = Append(log, Msg("log", "Successfully created zip archive at",
                                     zipLocation'))
           /\ UNCHANGED failed
  /\ UNCHANGED <<inputVars, manifest, configPackage, configArgs, config, started, outDirExists,
                 rsync, zip1Out, zip2Out, outerEntries, seen, exited, exitCode, unhandled>>

\* completion statuses of a process in which a rejected promise is left
\* unhandled: 0 with a warning (Node 14), 1 (Node 15 and later)
UnhandledRejectionCodes == {0, 1}

\* main() is called and its promise dropped; nothing assigns process.exitCode
\* or calls process.exit, so the process ends, once nothing is pending, with
\* the status Node gives it
Exit ==
  /\ pc \in {"returned", "rejected"}
  /\ ~exited
  /\ rsync /= "running"
  /\ "AssembleArchive" \in failed \/ (zip1Out /= "open" /\ zip2Out /= "open")
  /\ exited' = TRUE
  /\ exitCode' \in IF unhandled THEN UnhandledRejectionCodes ELSE {exitCode}
  /\ UNCHANGED <<inputVars, manifest, pc, configPackage, configArgs, config, log, started, failed,
                 fsVars, rsync, zipVars, seen, unhandled>>

Next ==
  \/ ParseConfigFromPackageJson
  \/ ParseConfigFromArgs
  \/ CombineConfigs
  \/ ValidateConfig
  \/ PrepareOutputDir
  \/ CleanupStaleArchives
  \/ MirrorContent
  \/ RsyncExit
  \/ BuildManifest
  \/ AssembleArchiveStage1
  \/ Stage1ArchiveEvent
  \/ Stage1OutputClose
  \/ AssembleArchiveStage2
  \/ Stage2ArchiveEvent
  \/ Stage2OutputClose
  \/ AssembleArchiveDone
  \/ Exit

Spec == Init /\ [][Next]_vars

(***************************************************************************)
(* Direct calls of the exported functions                                  *)
(***************************************************************************)
CallCreateXuiJson ==
  /\ pc = "call"
  /\ \E err \in BOOLEAN :
       IF err
       THEN /\ pc' = "createXuiJson failed"
            /\ UNCHANGED <<manifest, seen, outFiles, fsOps>>
       ELSE /\ pc' = "createXuiJson"
            /\ \E isoString \in Clock : WriteManifest(isoString)
  /\ UNCHANGED <<inputVars, configPackage, configArgs, config, log, started, failed,
                 outDirExists, rsync, zipVars, exited, exitCode, unhandled>>

CallListDirContents ==
  /\ pc = "call"
  /\ \E recurse \in BOOLEAN :
       /\ pc' = IF recurse THEN "listDirContents" ELSE "listDirContents, recurse = false"
       /\ listing' = listDirContents(tree, XuiSrcDirOf(config).s, <<>>, recurse)
  /\ UNCHANGED <<packageJson, argv, tree, sources, manifest, configPackage, configArgs,
                 config, log, started, failed, fsVars, rsync, zipVars, seen, exited,
                 exitCode, unhandled>>

\* the arguments of combineConfigs after the call: none of them is assigned to
ArgumentsAfterCombine(arguments) == arguments

CallCombineConfigs ==
  /\ pc = "call"
  /\ IF combineConfigsThrows(sources)
     THEN pc' = "combineConfigs failed" /\ UNCHANGED <<config, sources>>
     ELSE /\ pc' = "combineConfigs"
          /\ config' = combineConfigs(sources)
          /\ sources' = ArgumentsAfterCombine(sources)
  /\ UNCHANGED <<packageJson, argv, tree, listing, manifest, configPackage, configArgs,
                 log, started, failed, fsVars, rsync, zipVars, seen, exited, exitCode,
                 unhandled>>

NextManifest ==
  \/ CallCreateXuiJson
  \/ CallListDirContents

SpecManifest == InitManifest /\ [][NextManifest]_vars

NextCombine == CallCombineConfigs

SpecCombine == InitCombine /\ [][NextCombine]_vars

\* main up to the validation of the configuration, over the larger inputs
NextConfig ==
  \/ ParseConfigFromPackageJson
  \/ ParseConfigFromArgs
  \/ CombineConfigs
  \/ ValidateConfig

SpecConfig == InitConfig /\ [][NextConfig]_vars


(***************************************************************************)
(* Properties                                                              *)
(***************************************************************************)
StageOrder == <<"ValidateConfig", "PrepareOutputDir", "CleanupStaleArchives",
                "MirrorContent", "BuildManifest", "AssembleArchive">>
Printed(text) == \E i \in 1..Len(log) : log[i].text = text
PrintedAt(level, text) == \E i \in 1..Len(log) : log[i].text = text /\ log[i].level = level
SuccessPrinted == Printed("Successfully created zip archive at")
HasStarted(stage) == \E i \in 1..Len(started) : started[i] = stage
\* main holds an effective configuration
ConfigResolved == pc \notin {"start", "parsedPackage", "parsedArgs", "rejected"}

\* C1: the stages begin in the fixed order ValidateConfig, PrepareOutputDir,
\* CleanupStaleArchives, MirrorContent, BuildManifest, AssembleArchive; when
\* ValidateConfig, PrepareOutputDir, BuildManifest or AssembleArchive has
\* failed, the failed stage is the last one begun, main has returned and no
\* success message of that stage or of the run is printed; when
\* CleanupStaleArchives has failed, a warning is printed and main is either
\* about to begin MirrorContent or has begun it.
C1_StageSequence ==
  /\ started = SubSeq(StageOrder, 1, Len(started))
  /\ \A s \in failed \cap {"ValidateConfig", "PrepareOutputDir", "BuildManifest",
                           "AssembleArchive"} :
       /\ started[Len(started)] = s
       /\ pc = "returned"
       /\ ~SuccessPrinted
       /\ s = "BuildManifest" => ~Printed("Successfully created XUI metadata JSON file.")
  /\ "CleanupStaleArchives" \in failed =>
       /\ PrintedAt("warn", "Unable to cleanup previous zip archives. Continuing.")
       /\ \/ pc = "cleaned" /\ ENABLED MirrorContent
          \/ HasStarted("MirrorContent")

\* C1 witness: cleanup failed, the mirror and the manifest stage began all the
\* same, and the manifest stage then failed and halted the run
C1_Witness ==
  /\ "CleanupStaleArchives" \in failed
  /\ "BuildManifest" \in failed
  /\ started = SubSeq(StageOrder, 1, 5)
  /\ exited


\* the configuration field each stage reads for a command-line flag
FieldRead(flag, c) ==
  CASE flag = "name" -> IF "name" \in DOMAIN c THEN NameOf(c) ELSE Undefined
    [] flag = "id" -> IF "id" \in DOMAIN c THEN IdOf(c) ELSE Undefined
    [] flag = "vue_src" -> VueSrcDirOf(c)
    [] flag = "xui_src" -> XuiSrcDirOf(c)
    [] flag = "output" -> OutputDirOf(c)

DocumentedDefault(flag) ==
  CASE flag = "vue_src" -> Str(S_dist)
    [] flag = "xui_src" -> Str(S_xui_src)
    [] flag = "output" -> Str(S_xui_dist)

\* C2: once the configuration is merged, for each of --name, --id, --vue_src,
\* --xui_src and --output given a non-empty value on the command line, the
\* field the stages read equals that value; and a directory flag absent from
\* command line and descriptor leaves the documented default in that field.
C2_CommandLineOverrides ==
  ConfigResolved =>
    /\ \A flag \in {"name", "id", "vue_src", "xui_src", "output"} :
         Has(argv, flag) => FieldRead(flag, config) = argv[flag]
    /\ \A flag \in {"vue_src", "xui_src", "output"} :
         (~Has(argv, flag) /\ ~Has(packageJson.xuiConfig, flag)) =>
           FieldRead(flag, config) = DocumentedDefault(flag)

\* the exclusion patterns a source supplies: one for a single string, the
\* elements of a list, none when the key is absent
OwnPatterns(args) ==
  IF ~Has(args, "exclude") THEN <<>>
  ELSE IF args["exclude"].t = "string" THEN <<args["exclude"].s>>
  ELSE args["exclude"].a

\* C3: once the configuration is merged, its exclude list is the patterns of
\* the default, then those of the descriptor, then those of the command line,
\* each pattern one element, duplicates kept.
C3_ExcludeConcatenation ==
  ConfigResolved =>
    /\ config["exclude"].t = "array"
    /\ config["exclude"].a = OwnPatterns(NoProps) \o OwnPatterns(packageJson.xuiConfig)
                               \o OwnPatterns(argv)

\* C4: a run whose rsync reported an error has halted at MirrorContent: when
\* it has ended, a diagnostic is printed, 'Successfully copied files' is not,
\* and neither BuildManifest nor AssembleArchive has begun.
C4_MirrorErrorHalts ==
  (exited /\ rsync = "error") =>
    /\ PrintedAt("error", "Error copying files. Exiting.")
    /\ ~Printed("Successfully copied files from")
    /\ ~HasStarted("BuildManifest")
    /\ ~HasStarted("AssembleArchive")

\* C5: the manifest stage lists xuiSrcDir only when the mirror has ended, stage
\* 1 begins only when the manifest file is written, and stage 2 hashes
\* {name}.zip only when its write stream has written everything and is closed.
C5_StagesWaitForIO ==
  /\ "mirrorAtListing" \in DOMAIN seen => seen["mirrorAtListing"] \in {"ok", "error"}
  /\ "manifestAtZip1" \in DOMAIN seen => seen["manifestAtZip1"] = "written"
  /\ "zip1AtDigest" \in DOMAIN seen => seen["zip1AtDigest"] = "closed"

FatalStages == {"ValidateConfig", "PrepareOutputDir", "MirrorContent", "BuildManifest",
                "AssembleArchive"}

\* C6: a run that halted at a failed stage has printed a diagnostic and ends
\* with a non-zero status; a run that ends with status zero has printed the
\* success message with the artifact path.
C6_ExitStatus ==
  exited =>
    /\ failed \cap FatalStages /= {} =>
         (\E i \in 1..Len(log) : log[i].level = "error") /\ exitCode /= 0
    /\ exitCode = 0 => SuccessPrinted

\* C7: no exception or rejected promise leaves main: loading and merging the
\* configuration either yield a configuration or end in a failure main handles.
C7_NothingEscapesMain == pc /= "rejected"

\* three ASCII letters of either case, a hyphen, eight ASCII letters or digits
AsciiLetter(ch) == ch \in Letters \/ ch \in UpperLetters
IdWellFormed(v) ==
  /\ v.t = "string"
  /\ Len(v.s) = 12
  /\ AsciiLetter(v.s[1]) /\ AsciiLetter(v.s[2]) /\ AsciiLetter(v.s[3])
  /\ v.s[4] = "-"
  /\ \A i \in 5..12 : AsciiLetter(v.s[i]) \/ v.s[i] \in Digits

\* C8: checkConfigRequirements succeeds exactly when name is non-empty and id
\* is well formed; it reports id when id is missing, name when only name is
\* missing, and, when both are present and id is malformed, a format error
\* whose message holds the id as given.
C8_Validation ==
  HasStarted("ValidateConfig") =>
    LET e == checkConfigRequirements(config)
    IN /\ e = NoError <=> (Has(config, "name") /\ Has(config, "id") /\ IdWellFormed(config["id"]))
       /\ e = NoError <=> "ValidateConfig" \notin failed
       /\ ~Has(config, "id") => e.text = "id is required"
       /\ (Has(config, "id") /\ ~Has(config, "name")) => e.text = "name is required"
       /\ (Has(config, "id") /\ Has(config, "name") /\ ~IdWellFormed(config["id"])) =>
            /\ e.text = "id must be in the format XXX-xxxxxxxx. Received"
            /\ e.arg = Template(config["id"])

\* C9: when validation has failed, the file system is as the run found it: no
\* directory was made, no file unlinked or written, no rsync or write stream
\* started.
C9_NoMutationOnValidationFailure ==
  "ValidateConfig" \in failed =>
    /\ fsOps = <<>>
    /\ outFiles = (IF outDirExists THEN StaleFiles ELSE {})
    /\ rsync = "none" /\ zip1Out = "none" /\ zip2Out = "none"
    /\ started = <<"ValidateConfig">>

\* C9 witness: a run that failed validation and has ended
C9_Witness == "ValidateConfig" \in failed /\ exited /\ Len(log) = 2

TopLevel(entry) == \A i \in 1..Len(entry) : entry[i] /= "/"
Stage2Ran == "zip1AtDigest" \in DOMAIN seen
\* the icon path of the last source that gives one
ResolvedIcon ==
  IF Has(argv, "icon") THEN argv["icon"] ELSE packageJson.xuiConfig["icon"]
IconConfigured == Has(argv, "icon") \/ Has(packageJson.xuiConfig, "icon")

HexDigits == Digits \cup {"a", "b", "c", "d", "e", "f"}
IntermediateFiles == {Template(NameOf(config)) \o S_zip, Template(NameOf(config)) \o S_json}

\* C11: once the success message is printed, {name}.zip and {name}.json are
\* no longer in outputDir, the path printed is the one createContentLibraryZip
\* resolved to, it is {outputDir}/{name}-{7 hex characters}.zip, and that
\* file is in outputDir (and stays there until the process ends).
C11_ArtifactRemains ==
  SuccessPrinted =>
    /\ IntermediateFiles \cap outFiles = {}
    /\ \A i \in 1..Len(log) :
         log[i].text = "Successfully created zip archive at" => log[i].arg = zipLocation
    /\ \E stream \in {"open", "closed"} :
         /\ zipLocation = Path(OutputDirOf(config).s, FinalName(config, stream))
         /\ FinalName(config, stream) \in outFiles
         /\ FinalName(config, stream) =
              Template(NameOf(config)) \o <<"-">> \o ShortDigest(stream) \o S_zip
         /\ Len(ShortDigest(stream)) = 7
         /\ \A k \in 1..7 : ShortDigest(stream)[k] \in HexDigits

\* C11 witness: a run over a directory that held an archive of a past run
\* has unlinked it, printed the success message and ended
C11_Witness ==
  /\ SuccessPrinted
  /\ exited
  /\ \E i \in 1..Len(fsOps) : fsOps[i] = "unlink"
  /\ Cardinality(outFiles) = 2

ArchiveEventIn(stage) == "archiveEvent" \in DOMAIN seen /\ seen["archiveEvent"] = stage
Did(op) == \E i \in 1..Len(fsOps) : fsOps[i] = op

\* C12: when the archive of stage 1 or of stage 2 has emitted 'warning' or
\* 'error' before its finalize() resolved, createContentLibraryZip is
\* rejected: main has printed 'Error creating zip archive.' and not the
\* success message, no artifact path was returned, {name}.zip and
\* {name}.json were not unlinked, and after an event of stage 1 stage 2 was
\* never started.
C12_ArchiveEventRejects ==
  (ArchiveEventIn("stage1") \/ ArchiveEventIn("stage2")) =>
    /\ pc = "returned"
    /\ "AssembleArchive" \in failed
    /\ PrintedAt("error", "Error creating zip archive.")
    /\ ~SuccessPrinted
    /\ zipLocation = <<>>
    /\ ~Did("unlinkIntermediate")
    /\ IntermediateFiles \subseteq outFiles
    /\ ArchiveEventIn("stage1") =>
         /\ ~Did("createZip2")
         /\ zip2Out = "none"
         /\ outerEntries = <<>>
         /\ ~Stage2Ran

\* C12 witness: runs have ended after an event of the archive of stage 2,
\* emitted after the final archive was created
C12_Witness ==
  /\ ArchiveEventIn("stage2")
  /\ Did("createZip2")
  /\ exited

ManifestWritten == "now" \in DOMAIN seen
\* YYYY-MM-DD
IsDate(d) ==
  /\ Len(d) = 10
  /\ d[5] = "-" /\ d[8] = "-"
  /\ \A i \in (1..10) \ {5, 8} : d[i] \in Digits

\* C13: in the manifest createXuiJson wrote, every key of extraMetadata other
\* than icon has the value extraMetadata gives it, name, id, last_updated and
\* package_contents included; without a last_updated key in extraMetadata,
\* last_updated is the date part (YYYY-MM-DD) of the time of generation; icon
\* is the icon filename when the configuration has one, whatever extraMetadata
\* says, and otherwise only what extraMetadata gives, if anything.
C13_ManifestFields ==
  ManifestWritten =>
    LET extraMetadata == MetadataOf(config)
    IN /\ \A K \in (DOMAIN extraMetadata) \ {"icon"} : Get(manifest, K) = extraMetadata[K]
       /\ "last_updated" \notin DOMAIN extraMetadata =>
            /\ Get(manifest, "last_updated") = Str(SubSeq(seen["now"], 1, 10))
            /\ IsDate(Get(manifest, "last_updated").s)
       /\ Has(config, "iconFilename") => Get(manifest, "icon") = config["iconFilename"]
       /\ ~Has(config, "iconFilename") => Get(manifest, "icon") = Get(extraMetadata, "icon")

\* C13 witness: a manifest written for a configuration with an icon whose
\* extraMetadata has name, last_updated, package_contents and icon
C13_Witness ==
  /\ pc = "createXuiJson"
  /\ {"name", "last_updated", "package_contents", "icon"} \subseteq DOMAIN MetadataOf(config)
  /\ Has(config, "iconFilename")
  /\ manifest["icon"] /= MetadataOf(config)["icon"]
  /\ manifest["name"] /= config["name"]

\* the metadata a call of combineConfigs should yield for its arguments: the
\* keys of all of them, each with the value of the last one that has the key
Merged(arguments, result) ==
  LET defining(K) == {i \in 1..Len(arguments) : K \in DOMAIN MetadataOf(arguments[i])}
      keys == UNION {DOMAIN MetadataOf(arguments[i]) : i \in 1..Len(arguments)}
      last(K) == CHOOSE i \in defining(K) : \A j \in defining(K) : j <= i
  IN /\ "extraMetadata" \in DOMAIN result
     /\ result["extraMetadata"].t = "object"
     /\ DOMAIN result["extraMetadata"].o = keys
     /\ \A K \in keys : result["extraMetadata"].o[K] = MetadataOf(arguments[last(K)])[K]
     /\ keys = {} => result["extraMetadata"] = Obj(NoProps)

CombineReturns == pc = "call" /\ pc' = "combineConfigs"

C14_MergeOfSources ==
  [][CombineReturns =>
       /\ sources' = sources
       /\ Len(sources) > 0 => Merged(sources, config')
       /\ Len(sources) = 0 => config' = NoProps]_vars

\* C14 witness: the default configuration was combined with one that adds
\* version and then one that sets enabled anew
C14_Witness ==
  /\ pc = "combineConfigs"
  /\ Len(sources) = 3
  /\ sources[1] = defaultConfig
  /\ "version" \in DOMAIN MetadataOf(sources[2])
  /\ "version" \notin DOMAIN MetadataOf(sources[3])
  /\ "enabled" \in DOMAIN MetadataOf(sources[3])
  /\ MetadataOf(config)["enabled"] /= True
  /\ DOMAIN MetadataOf(config) = {"enabled", "version"}

\* the entries of a directory at any depth that are not directories, and
\* those that are, by their path from the directory
RECURSIVE LeafPaths(_)
LeafPaths(dirContents) ==
  UNION {IF dirContents[i].kind = "dir"
         THEN {dirContents[i].name \o <<"/">> \o q : q \in LeafPaths(dirContents[i].entries)}
         ELSE {dirContents[i].name} : i \in 1..Len(dirContents)}
RECURSIVE DirPaths(_)
DirPaths(dirContents) ==
  UNION {IF dirContents[i].kind = "dir"
         THEN {dirContents[i].name}
                \cup {dirContents[i].name \o <<"/">> \o q : q \in DirPaths(dirContents[i].entries)}
         ELSE {} : i \in 1..Len(dirContents)}
Range(seq) == {seq[i] : i \in 1..Len(seq)}
Under(dir, paths) == {dir \o <<"/">> \o q : q \in paths}

\* C15: package_contents of the manifest holds every entry of xuiSrcDir, at
\* any depth, that is not a directory, each once and by its path from
\* xuiSrcDir, and no directory; listDirContents returns the same entries by
\* their path with xuiSrcDir in front, and with recurse = false the immediate
\* entries of the directory, directories among them, in their order.
C15_PackageContents ==
  /\ (ManifestWritten /\ "package_contents" \notin DOMAIN MetadataOf(config)) =>
       LET contents == manifest["package_contents"].a
       IN /\ Range(contents) = LeafPaths(tree)
          /\ Len(contents) = Cardinality(LeafPaths(tree))
          /\ Range(contents) \cap DirPaths(tree) = {}
  /\ pc = "listDirContents" =>
       /\ Range(listing) = Under(XuiSrcDirOf(config).s, LeafPaths(tree))
       /\ Len(listing) = Cardinality(LeafPaths(tree))
  /\ pc = "listDirContents, recurse = false" =>
       listing = [i \in 1..Len(tree) |-> XuiSrcDirOf(config).s \o <<"/">> \o tree[i].name]

\* C15 witness: a manifest written over a directory with a file at the top, a
\* sub-directory holding a file and a sub-directory of its own
C15_Witness ==
  /\ pc = "createXuiJson"
  /\ <<"f">> \in Range(manifest["package_contents"].a)
  /\ <<"s", "/", "f">> \in Range(manifest["package_contents"].a)
  /\ <<"s", "/", "s">> \in DirPaths(tree)

====
